---------------------------- MODULE Spec2Model ----------------------------
(***************************************************************************)
(* A model of pyvsc's extension-source resolution and download subsystem   *)
(* (pyvsc/_extension.py) and of the "install" command that drives it       *)
(* (pyvsc/commands/install.py).                                            *)
(*                                                                         *)
(* Python values are represented as follows:                               *)
(*   - str            a TLA+ string; str.format is concatenation (\o)      *)
(*   - None           the string None (for a str-or-None value) or the     *)
(*                    record NoneObj (for an object-or-None value)         *)
(*   - list           a sequence                                           *)
(*   - dict / object  a record                                             *)
(*   - a call that may raise: a record [raised, value, cmds, log, mkt]     *)
(*     with the exception it raised ("none" when it returned), the value   *)
(*     it returned, the commands it ran on the tunnel, the log records it  *)
(*     emitted and the marketplace queries it made, in order.              *)
(***************************************************************************)
EXTENDS Integers, Sequences, FiniteSets, TLC

VARIABLES
    platform,   \* the host platform platform_query() inspects
    pc,         \* position of the program
    call,       \* the call in progress or last made: its name, arguments, response
    ext,        \* the Extension the last resolution returned, or NoneObj
    raised,     \* the exception the last call raised, "none" when it returned
    ret,        \* the value the last download() returned
    cmds,       \* commands run on the tunnel (remote execution channel), in order
    log,        \* records emitted on _LOGGER, in order
    mkt,        \* unique ids queried at the marketplace, in order
    \* InstallCommand.run
    editors_to_install,     \* editors the loop of _install_editors has yet to visit
    extensions_to_install,  \* extensions the loop of _install_extensions has yet to visit
    target_editors,         \* NoneObj, or [set |-> the target editors]
    system_editors,         \* get_editors(): editor name -> [installed, can_update]
    connected,              \* whether Command.tunnel.connect() was called
    installs,               \* install_extension calls: [editor, path], in order
    temporary_files,        \* paths given to store_temporary_file_path, in order
    \* ConfigCommand.run
    rcfile,     \* the configuration file: [path, conf], path None when there is none
    config      \* the last config subcommand: its arguments, the file before it,
                \* what its method returned and the exception run() caught

extvars == <<call, ext, raised, ret, cmds, log, mkt>>
runvars == <<editors_to_install, extensions_to_install, target_editors,
             system_editors, connected, installs, temporary_files>>
cfgvars == <<rcfile, config>>
vars == <<platform, pc, extvars, runvars, cfgvars>>

-----------------------------------------------------------------------------
(* Bounds of the model *)

\* longest asset list of a GitHub release the API returns
MaxAssets == 2
\* longest files list of a marketplace version record
MaxFiles == 2
\* longest properties list of a marketplace version record
MaxProperties == 2

-----------------------------------------------------------------------------
(* Python values *)

None == "<None>"
NoneObj == [none |-> TRUE]

\* seq \o <<x>> for each x a call emitted
Returned(v) == [raised |-> "none", value |-> v, cmds |-> <<>>, log |-> <<>>, mkt |-> <<>>]
Raised(e) == [raised |-> e, value |-> None, cmds |-> <<>>, log |-> <<>>, mkt |-> <<>>]

SeqsUpTo(S, n) == UNION {[1..k -> S] : k \in 0..n}

\* the orders in which a loop may visit the members of a set
Orders(S) == {f \in [1..Cardinality(S) -> S] : \A x \in S : \E i \in DOMAIN f : f[i] = x}

-----------------------------------------------------------------------------
(* Inputs the model draws from *)

Platforms == {"windows", "darwin", "linux64", "linux32"}
Owners == {"Microsoft", "acme"}
Repos == {"vscode-cpptools", "widget"}
AssetNames == {"cpptools-linux.vsix", "cpptools-osx.vsix"}
Releases == {"latest", "v1.2"}
UniqueIds == {"ms-vscode.cpptools", "twxs.cmake"}
AssetUrls == {"U", "V"}
Directories == {"/tmp/remote", "/tmp/local"}
Stderrs == {"not found"}
Stdouts == {"100% transferred"}
EditorNames == {"code", "codium"}
ConfigKeys == {"target", "output_dir"}
ConfigValues == {"code", "/tmp/out"}

\* an asset of a GitHub release, as the releases API returns it
Assets == [name : AssetNames, browser_download_url : AssetUrls]
\* a release object of the GitHub releases API
ReleaseObjects == [prerelease : BOOLEAN, assets : SeqsUpTo(Assets, MaxAssets)]

-----------------------------------------------------------------------------
(* pyvsc/_extension.py *)

_GITHUB_API_ROOT_URI == "https://api.github.com"
_GITHUB_ROOT_URI == "https://github.com"

ExtensionSourceTypes == [Undefined |-> 0, Marketplace |-> 1, GitHub |-> 2]


\* platform_query(windows=, darwin=, linux64=, linux32=): the value keyed to
\* the host platform
platform_query(windows, darwin, linux64, linux32) ==
    CASE platform = "windows" -> windows
      [] platform = "darwin" -> darwin
      [] platform = "linux64" -> linux64
      [] platform = "linux32" -> linux32

_NON_MARKETPLACE_EXTENSIONS ==
    [u \in {"ms-vscode.cpptools"} |->
        [owner |-> "Microsoft",
         repo |-> "vscode-cpptools",
         asset_name |-> platform_query("cpptools-win32.vsix", "cpptools-osx.vsix",
                                       "cpptools-linux.vsix", "cpptools-linux32.vsix")]]

\* dict_from_list_key(l, key, value): the first dict of the list whose entry
\* at key equals value, None when there is none
RECURSIVE dict_from_list_key(_, _, _)
dict_from_list_key(l, key, value) ==
    IF l = <<>> THEN NoneObj
    ELSE IF Head(l)[key] = value THEN Head(l)
    ELSE dict_from_list_key(Tail(l), key, value)

\* CurledRequest.get(url, output=None): the descriptor of a fetch command
curled_get(url, output) == [url |-> url, output |-> output]

\* Extension.__init__: the fields the base class sets on the object
Extension(self, source_type, unique_id, download_url) ==
    [source_type |-> source_type,
     unique_id |-> unique_id,
     download_url |-> download_url,
     download_from_marketplace |-> unique_id \notin DOMAIN _NON_MARKETPLACE_EXTENSIONS]
    @@ self

\* download() as it would be if the version were left out of the file name
download_without_version(self, args, response) ==
    IF Len(args) # 1
    THEN Raised("TypeError")
    ELSE LET curled_request == curled_get(self.download_url,
                                          args[1] \o "/" \o self.unique_id \o ".vsix")
         IN [Returned(None) EXCEPT
                !.cmds = <<curled_request>>,
                !.log = IF response.exited = 0
                        THEN <<[level |-> "info", msg |-> response.stdout]>>
                        ELSE <<[level |-> "error", msg |-> response.stderr]>>]

\* Extension.download called with the positional arguments args; response is
\* what the tunnel answers if a command is run
download(self, args, response) ==
    IF Len(args) # 1
    THEN Raised("TypeError")
    ELSE LET directory == args[1]
             ext_name == IF "version" \in DOMAIN self
                         THEN self.unique_id \o "-" \o self.version
                         ELSE self.unique_id
             curled_request == curled_get(self.download_url,
                                          directory \o "/" \o ext_name \o ".vsix")
         IN [Returned(None) EXCEPT
                !.cmds = <<curled_request>>,
                !.log = IF response.exited = 0
                        THEN <<[level |-> "info", msg |-> response.stdout]>>
                        ELSE <<[level |-> "error", msg |-> response.stderr]>>]

\* _get_download_url_from_asset_list as it would be if the last asset of the
\* name were taken, and None returned when there is none
_get_download_url_from_last_asset(self, asset_list) ==
    LET found == {i \in DOMAIN asset_list : asset_list[i].name = self.asset_name}
    IN IF found = {}
       THEN Returned(None)
       ELSE Returned(asset_list[CHOOSE i \in found : \A j \in found : j <= i]
                        .browser_download_url)

\* GithubExtension._get_download_url_from_asset_list
_get_download_url_from_asset_list(self, asset_list) ==
    LET asset == dict_from_list_key(asset_list, "name", self.asset_name)
    IN IF asset = NoneObj
       THEN Raised("TypeError")
       ELSE Returned(asset.browser_download_url)

\* the query URL as it would be if the release were left out of the endpoint
query_url_without_release(self) ==
    _GITHUB_API_ROOT_URI \o "/repos/" \o self.owner \o "/" \o self.repo
    \o "/releases?per_page=1"

\* the URL GithubExtension._from_latest queries
query_url(self) ==
    LET query_endpoint ==
            IF ~self.prerelease
            THEN "/repos/" \o self.owner \o "/" \o self.repo \o "/releases/"
                 \o self.release \o "?per_page=1"
            ELSE "/repos/" \o self.owner \o "/" \o self.repo \o "/releases?per_page=1"
    IN _GITHUB_API_ROOT_URI \o query_endpoint

\* _from_latest as it would be if, with prereleases allowed, element 0 of the
\* list were taken only when it is a prerelease
_from_latest_prerelease_only(self, response) ==
    LET curled_request == curled_get(query_url(self), None)
    IN IF response.exited = 0
       THEN IF self.prerelease /\ response.stdout = <<>>
            THEN [Raised("IndexError") EXCEPT !.cmds = <<curled_request>>]
            ELSE IF self.prerelease /\ ~response.stdout[1].prerelease
            THEN [Returned(None) EXCEPT !.cmds = <<curled_request>>]
            ELSE LET response_obj == IF self.prerelease
                                     THEN response.stdout[1]
                                     ELSE response.stdout
                 IN [_get_download_url_from_asset_list(self, response_obj.assets)
                        EXCEPT !.cmds = <<curled_request>>]
       ELSE [Returned(None) EXCEPT
                !.cmds = <<curled_request>>,
                !.log = <<[level |-> "error", msg |-> response.stderr]>>]

\* _from_latest as it would be if a failed query were tried once more
_from_latest_retrying(self, response) ==
    LET curled_request == curled_get(query_url(self), None)
    IN IF response.exited = 0
       THEN IF self.prerelease /\ response.stdout = <<>>
            THEN [Raised("IndexError") EXCEPT !.cmds = <<curled_request>>]
            ELSE LET response_obj == IF self.prerelease
                                     THEN response.stdout[1]
                                     ELSE response.stdout
                 IN [_get_download_url_from_asset_list(self, response_obj.assets)
                        EXCEPT !.cmds = <<curled_request>>]
       ELSE [Returned(None) EXCEPT
                !.cmds = <<curled_request, curled_request>>,
                !.log = <<[level |-> "error", msg |-> response.stderr]>>]

\* GithubExtension._from_latest; response is what the tunnel answers, its
\* stdout standing for the JSON document json.loads parses
_from_latest(self, response) ==
    LET curled_request == curled_get(query_url(self), None)
    IN IF response.exited = 0
       THEN IF self.prerelease /\ response.stdout = <<>>
            THEN [Raised("IndexError") EXCEPT !.cmds = <<curled_request>>]
            ELSE LET response_obj == IF self.prerelease
                                     THEN response.stdout[1]
                                     ELSE response.stdout
                     asset_list == response_obj.assets
                 IN [_get_download_url_from_asset_list(self, asset_list)
                        EXCEPT !.cmds = <<curled_request>>]
       ELSE [Returned(None) EXCEPT
                !.cmds = <<curled_request>>,
                !.log = <<[level |-> "error", msg |-> response.stderr]>>]

\* _from_args as it would be if the URL were rooted at the API
_from_args_api_root(self) ==
    _GITHUB_API_ROOT_URI \o "/" \o self.owner \o "/" \o self.repo
    \o "/releases/download/" \o self.release \o "/" \o self.asset_name

\* GithubExtension._from_args
_from_args(self) ==
    LET query_endpoint == "/" \o self.owner \o "/" \o self.repo
                          \o "/releases/download/" \o self.release
                          \o "/" \o self.asset_name
    IN _GITHUB_ROOT_URI \o query_endpoint

\* GithubExtension.__init__ as it would be if a failed query raised
GithubExtension_raising(owner, repo, asset_name, release, prerelease, unique_id, response) ==
    LET self == [owner |-> owner, repo |-> repo, asset_name |-> asset_name,
                 release |-> release, prerelease |-> prerelease]
        url == IF release = "latest"
               THEN _from_latest(self, response)
               ELSE Returned(_from_args(self))
    IN IF url.raised # "none" \/ url.value = None
       THEN [url EXCEPT !.raised = IF @ = "none" THEN "TransportFailure" ELSE @]
       ELSE [url EXCEPT !.value =
                Extension(self, ExtensionSourceTypes.GitHub, unique_id, url.value)]

\* GithubExtension.__init__
GithubExtension(owner, repo, asset_name, release, prerelease, unique_id, response) ==
    LET self == [owner |-> owner, repo |-> repo, asset_name |-> asset_name,
                 release |-> release, prerelease |-> prerelease]
        url == IF release = "latest"
               THEN _from_latest(self, response)
               ELSE Returned(_from_args(self))
    IN IF url.raised # "none"
       THEN url
       ELSE [url EXCEPT !.value =
                Extension(self, ExtensionSourceTypes.GitHub, unique_id, url.value)]

\* MarketplaceExtension._manifest_url
_manifest_url(files) ==
    LET match == dict_from_list_key(files, "assetType",
                                    "Microsoft.VisualStudio.Code.Manifest")
    IN IF match # NoneObj THEN match.source ELSE None

\* _vsix_package_uri as it would be if it looked for the asset type of the
\* manifest
_vsix_package_uri_of_manifest(files) ==
    LET match == dict_from_list_key(files, "assetType",
                                    "Microsoft.VisualStudio.Code.Manifest")
    IN IF match # NoneObj THEN match.source ELSE None

\* MarketplaceExtension._vsix_package_uri
_vsix_package_uri(files) ==
    LET match == dict_from_list_key(files, "assetType",
                                    "Microsoft.VisualStudio.Services.VSIXPackage")
    IN IF match # NoneObj THEN match.source ELSE None

\* MarketplaceExtension._code_engine
_code_engine(properties) ==
    LET match == dict_from_list_key(properties, "key",
                                    "Microsoft.VisualStudio.Code.Engine")
    IN IF match # NoneObj THEN match.value ELSE None

\* MarketplaceExtension._extension_pack
_extension_pack(properties) ==
    LET match == dict_from_list_key(properties, "key",
                                    "Microsoft.VisualStudio.Code.ExtensionPack")
    IN IF match # NoneObj THEN match.value ELSE None

\* MarketplaceExtension._extension_dependencies
_extension_dependencies(properties) ==
    LET match == dict_from_list_key(properties, "key",
                                    "Microsoft.VisualStudio.Code.ExtensionDependencies")
    IN IF match # NoneObj THEN match.value ELSE None

\* MarketplaceExtension.__init__ on a parsed marketplace response p
MarketplaceExtension(p) ==
    LET version == p.versions[1]
        files == version.files
        properties == version.properties
        unique_id == p.publisher.publisherName \o "." \o p.extensionName
        self == [extension_id |-> p.extensionId,
                 extension_name |-> p.extensionName,
                 display_name |-> p.displayName,
                 publisher_name |-> p.publisher.publisherName,
                 description |-> p.shortDescription,
                 stats |-> p.statistics,
                 code_engine |-> _code_engine(properties),
                 extension_pack |-> _extension_pack(properties),
                 extension_dependencies |-> _extension_dependencies(properties),
                 uri |-> [asset |-> version.assetUri,
                          asset_fallback |-> version.fallbackAssetUri,
                          manifest |-> _manifest_url(files),
                          vsix_package |-> _vsix_package_uri(files)],
                 version |-> version.version]
    IN Returned(Extension(self, ExtensionSourceTypes.Marketplace, unique_id,
                          self.uri.vsix_package))

\* Marketplace(tunnel).get_extension(unique_id): the parsed record of the
\* extension, NotFound when the marketplace has no record of it
Marketplace_get_extension(unique_id, found) ==
    IF found = NoneObj
    THEN [Raised("NotFound") EXCEPT !.mkt = <<unique_id>>]
    ELSE [Returned(found) EXCEPT !.mkt = <<unique_id>>]

\* get_extension as it would be if every extension were looked up at the
\* marketplace
get_extension_marketplace_only(unique_id, release, response, found) ==
    LET q == Marketplace_get_extension(unique_id, found)
    IN IF q.raised # "none"
       THEN q
       ELSE [MarketplaceExtension(q.value) EXCEPT !.mkt = q.mkt]

\* get_extension(unique_id, tunnel, release); response is what the tunnel
\* answers a GitHub query, found what the marketplace holds for unique_id
get_extension(unique_id, release, response, found) ==
    IF unique_id \notin DOMAIN _NON_MARKETPLACE_EXTENSIONS
    THEN LET q == Marketplace_get_extension(unique_id, found)
         IN IF q.raised # "none"
            THEN q
            ELSE [MarketplaceExtension(q.value) EXCEPT !.mkt = q.mkt]
    ELSE LET e == _NON_MARKETPLACE_EXTENSIONS[unique_id]
         IN GithubExtension(e.owner, e.repo, e.asset_name, release, FALSE,
                            unique_id, response)

-----------------------------------------------------------------------------
(* The environment: what the tunnel and the marketplace answer *)

Failures == [exited : {1}, stdout : {""}, stderr : Stderrs]

\* answers to GET /repos/{owner}/{repo}/releases/latest: one release object
\* that is no prerelease
LatestResponses ==
    [exited : {0}, stdout : {r \in ReleaseObjects : ~r.prerelease}, stderr : {""}]
    \cup Failures

\* answers to GET /repos/{owner}/{repo}/releases?per_page=1: a list of at most
\* one release object
ListResponses == [exited : {0}, stdout : SeqsUpTo(ReleaseObjects, 1), stderr : {""}]
                 \cup Failures

\* answers of the tunnel to the query of a 'latest' resolution
QueryResponses(prerelease) == IF prerelease THEN ListResponses ELSE LatestResponses

\* answers of the tunnel that the constructor of a GithubExtension can see:
\* those to its query when the release is 'latest', none otherwise
ResolutionResponses(release, prerelease) ==
    IF release = "latest" THEN QueryResponses(prerelease) ELSE {NoneObj}

\* answers of the tunnel that get_extension(unique_id, release) can see
LookupResponses(unique_id, release) ==
    IF unique_id \in DOMAIN _NON_MARKETPLACE_EXTENSIONS
    THEN ResolutionResponses(release, FALSE)
    ELSE {NoneObj}

\* answers of the tunnel to a fetch command of download()
FetchResponses == [exited : {0}, stdout : Stdouts, stderr : {""}] \cup Failures

MarketplaceFiles ==
    [assetType : {"Microsoft.VisualStudio.Code.Manifest",
                  "Microsoft.VisualStudio.Services.VSIXPackage"},
     source : AssetUrls]

MarketplaceProperties ==
    [key : {"Microsoft.VisualStudio.Code.Engine",
            "Microsoft.VisualStudio.Code.ExtensionPack",
            "Microsoft.VisualStudio.Code.ExtensionDependencies"},
     value : {"P", "Q"}]

\* the record of twxs.cmake the marketplace returns, its first version with
\* the files f and the properties p
MarketplaceRecord(f, p) ==
    [extensionId |-> "guid",
     extensionName |-> "cmake",
     displayName |-> "CMake",
     publisher |-> [publisherName |-> "twxs"],
     shortDescription |-> "",
     statistics |-> <<>>,
     versions |-> <<[version |-> "1.2.3", files |-> f, properties |-> p,
                     assetUri |-> "A", fallbackAssetUri |-> "F"]>>]

\* what the marketplace holds for unique_id: a record, or nothing; it is not
\* asked about the extensions of the registry
MarketplaceRecords(unique_id) ==
    IF unique_id \in DOMAIN _NON_MARKETPLACE_EXTENSIONS
    THEN {NoneObj}
    ELSE {MarketplaceRecord(f, <<>>) : f \in SeqsUpTo(MarketplaceFiles, MaxFiles)}
         \cup {NoneObj}

\* the parsed marketplace responses a MarketplaceExtension is built from
ParsedMarketplaceResponses ==
    {MarketplaceRecord(f, p) : f \in SeqsUpTo(MarketplaceFiles, MaxFiles),
                               p \in SeqsUpTo(MarketplaceProperties, MaxProperties)}

-----------------------------------------------------------------------------
(* Calls of the extension API *)

Init ==
    /\ platform \in Platforms
    /\ pc = "idle"
    /\ call = [op |-> "none"]
    /\ ext = NoneObj
    /\ raised = "none"
    /\ ret = None
    /\ cmds = <<>>
    /\ log = <<>>
    /\ mkt = <<>>
    /\ editors_to_install = {}
    /\ extensions_to_install = {}
    /\ target_editors = NoneObj
    /\ system_editors = NoneObj
    /\ connected = FALSE
    /\ installs = <<>>
    /\ temporary_files = <<>>
    /\ rcfile = [path |-> None, conf |-> <<>>]
    /\ config = [op |-> "none"]

\* what a call r did to the tunnel, the log and the marketplace
Effects(r) ==
    /\ raised' = r.raised
    /\ cmds' = cmds \o r.cmds
    /\ log' = log \o r.log
    /\ mkt' = mkt \o r.mkt

\* the response a call consumed: NoneObj when it ran no command
Consumed(r, response) == IF r.cmds = <<>> THEN NoneObj ELSE response

\* GithubExtension(owner, repo, asset_name, release, prerelease, unique_id, tunnel)
NewGithubExtension ==
    /\ pc = "idle"
    /\ \E owner \in Owners, repo \in Repos, asset_name \in AssetNames,
          release \in Releases, prerelease \in BOOLEAN, unique_id \in UniqueIds :
        \E response \in ResolutionResponses(release, prerelease) :
            LET r == GithubExtension(owner, repo, asset_name, release, prerelease,
                                     unique_id, response)
            IN /\ call' = [op |-> "GithubExtension",
                           args |-> [owner |-> owner, repo |-> repo,
                                     asset_name |-> asset_name, release |-> release,
                                     prerelease |-> prerelease, unique_id |-> unique_id],
                           response |-> Consumed(r, response)]
               /\ ext' = IF r.raised = "none" THEN r.value ELSE NoneObj
               /\ Effects(r)
    /\ pc' = "resolved"
    /\ UNCHANGED cfgvars
    /\ UNCHANGED <<platform, ret, runvars>>

\* get_extension(unique_id, tunnel, release)
GetExtension ==
    /\ pc = "idle"
    /\ \E unique_id \in UniqueIds, release \in Releases :
        \E response \in LookupResponses(unique_id, release),
           found \in MarketplaceRecords(unique_id) :
            LET r == get_extension(unique_id, release, response, found)
            IN /\ call' = [op |-> "get_extension",
                           args |-> [unique_id |-> unique_id, release |-> release],
                           response |-> Consumed(r, response)]
               /\ ext' = IF r.raised = "none" THEN r.value ELSE NoneObj
               /\ Effects(r)
    /\ pc' = "resolved"
    /\ UNCHANGED cfgvars
    /\ UNCHANGED <<platform, ret, runvars>>

\* MarketplaceExtension(parsed_marketplace_response, tunnel)
NewMarketplaceExtension ==
    /\ pc = "idle"
    /\ \E p \in ParsedMarketplaceResponses :
        LET r == MarketplaceExtension(p)
        IN /\ call' = [op |-> "MarketplaceExtension", args |-> p, response |-> NoneObj]
           /\ ext' = IF r.raised = "none" THEN r.value ELSE NoneObj
           /\ Effects(r)
    /\ pc' = "resolved"
    /\ UNCHANGED cfgvars
    /\ UNCHANGED <<platform, ret, runvars>>

\* ext.download(*args) on the extension a resolution returned
Download ==
    /\ pc = "resolved"
    /\ ext # NoneObj
    /\ \E args \in [1..1 -> Directories] \cup [1..2 -> Directories] :
        \E response \in IF Len(args) = 1 THEN FetchResponses ELSE {NoneObj} :
            LET r == download(ext, args, response)
            IN /\ call' = [op |-> "download", args |-> args,
                           response |-> Consumed(r, response)]
               /\ ret' = r.value
               /\ Effects(r)
    /\ pc' = "downloaded"
    /\ UNCHANGED cfgvars
    /\ UNCHANGED <<platform, ext, runvars>>

-----------------------------------------------------------------------------
(* pyvsc/commands/install.py *)

\* Command.main_options.remote_output_dir and .output_dir
remote_output == "/tmp/remote"
local_output == "/tmp/local"

\* InstallCommand._parse_editors_from_extensions: the items that match a
\* supported editor, and the others, taken to be extensions
_parse_editors_from_extensions(items) ==
    [editors |-> items \cap EditorNames, extensions |-> items \ EditorNames]

\* Editor.download(remote_dir, local_dir): the path of the downloaded editor
Editor_download(editor_id, remote_dir, local_dir) == remote_dir \o "/" \o editor_id

\* what run() made of its arguments: the editors and the extensions to
\* install and, when there are extensions, the target editors
\* _get_dest_editors found
RunArgs(parsed, targets) ==
    [editors |-> parsed.editors,
     extensions |-> parsed.extensions,
     targets |-> IF parsed.extensions # {} THEN [set |-> targets] ELSE NoneObj]

\* InstallCommand.run up to the call of _install_editors
RunStart ==
    /\ pc = "idle"
    /\ \E items \in SUBSET (EditorNames \cup UniqueIds), targets \in SUBSET EditorNames,
          editors \in [EditorNames -> [installed : BOOLEAN, can_update : BOOLEAN]],
          dirs_exist \in BOOLEAN :
        IF items # {}
        THEN LET parsed == _parse_editors_from_extensions(items)
             IN /\ editors_to_install' = parsed.editors
                /\ extensions_to_install' = parsed.extensions
                /\ target_editors' = IF parsed.extensions # {}
                                     THEN [set |-> targets]
                                     ELSE NoneObj
                /\ connected' = TRUE
                /\ system_editors' = editors
                /\ log' = IF dirs_exist
                          THEN log
                          ELSE Append(log, [level |-> "error",
                                            msg |-> "Could not ensure the existence of the required output directories."])
                /\ call' = [op |-> "run", args |-> RunArgs(parsed, targets)]
                /\ pc' = "install_editors"
        ELSE /\ log' = Append(log, [level |-> "error",
                                    msg |-> "The \"install\" command expects 1 or more arguments."])
             /\ call' = [op |-> "run",
                         args |-> RunArgs(_parse_editors_from_extensions(items), targets)]
             /\ pc' = "done"
             /\ UNCHANGED runvars
    /\ UNCHANGED cfgvars
    /\ UNCHANGED <<platform, ext, raised, ret, cmds, mkt, installs, temporary_files>>

\* one iteration of the loop of InstallCommand._install_editors
RunInstallEditor ==
    /\ pc = "install_editors"
    /\ \E req \in editors_to_install :
        LET current_editor == system_editors[req]
        IN /\ editors_to_install' = editors_to_install \ {req}
           /\ IF current_editor.can_update
              THEN /\ temporary_files' =
                        Append(temporary_files,
                               Editor_download(req, remote_output, local_output))
                   /\ log' = log
              ELSE /\ log' = Append(log, [level |-> "info",
                                          msg |-> req \o " is already up-to-date."])
                   /\ temporary_files' = temporary_files
    /\ UNCHANGED cfgvars
    /\ UNCHANGED <<platform, pc, call, ext, raised, ret, cmds, mkt,
                   extensions_to_install, target_editors, system_editors,
                   connected, installs>>

\* InstallCommand._validate_target_editors, called once the editors are
\* installed; _install_extensions follows, a loop over the extensions
RunValidateTargetEditors ==
    /\ pc = "install_editors"
    /\ editors_to_install = {}
    /\ IF target_editors = NoneObj
       THEN \* for req in None
            /\ raised' = "TypeError"
            /\ pc' = "crashed"
            /\ UNCHANGED <<log, target_editors>>
       ELSE LET missing == {t \in target_editors.set : ~system_editors[t].installed}
            IN IF missing = {}
               THEN /\ pc' = IF extensions_to_install = {}
                             THEN "done"
                             ELSE "install_extensions"
                    /\ UNCHANGED <<raised, log, target_editors>>
               ELSE \* the first target the loop finds not installed is removed
                    \* from the set the loop iterates over
                    \E req \in missing :
                        /\ log' = Append(log, [level |-> "error",
                                               msg |-> "Can use destination editor \""
                                                       \o req \o "\"."])
                        /\ target_editors' = [set |-> target_editors.set \ {req}]
                        /\ raised' = "RuntimeError"
                        /\ pc' = "crashed"
    /\ UNCHANGED cfgvars
    /\ UNCHANGED <<platform, call, ext, ret, cmds, mkt, editors_to_install,
                   extensions_to_install, system_editors, connected, installs,
                   temporary_files>>

\* InstallCommand._install_extensions: get_extension for the next extension
RunGetExtension ==
    /\ pc = "install_extensions"
    /\ \E req \in extensions_to_install :
        \E response \in LookupResponses(req, "latest"),
           found \in MarketplaceRecords(req) :
            LET r == get_extension(req, "latest", response, found)
            IN /\ extensions_to_install' = extensions_to_install \ {req}
               /\ ext' = IF r.raised = "none" THEN r.value ELSE NoneObj
               /\ Effects(r)
               /\ pc' = IF r.raised = "none" THEN "download_extension" ELSE "crashed"
    /\ UNCHANGED cfgvars
    /\ UNCHANGED <<platform, call, ret, editors_to_install, target_editors,
                   system_editors, connected, installs, temporary_files>>

\* InstallCommand._install_extensions: the rest of the iteration, from the
\* download of the extension to the storing of its path; the loop, and with
\* it run(), ends after the iteration of the last extension
RunInstallExtension ==
    /\ pc = "download_extension"
    /\ \E response \in FetchResponses, order \in Orders(target_editors.set) :
        LET r == download(ext, <<remote_output, local_output>>, response)
            extension_path == r.value
        IN /\ Effects(r)
           /\ ret' = r.value
           /\ IF r.raised # "none"
              THEN /\ pc' = "crashed"
                   /\ UNCHANGED <<installs, temporary_files>>
              ELSE /\ installs' = installs \o
                        [i \in DOMAIN order |->
                            [editor |-> order[i], path |-> extension_path]]
                   /\ temporary_files' = Append(temporary_files, extension_path)
                   /\ pc' = IF extensions_to_install = {}
                            THEN "done"
                            ELSE "install_extensions"
    /\ UNCHANGED cfgvars
    /\ UNCHANGED <<platform, call, ext, editors_to_install, extensions_to_install,
                   target_editors, system_editors, connected>>

-----------------------------------------------------------------------------
(* pyvsc/commands/config.py *)

\* the path get_response and resolved_path give for a new configuration file
rc_home == "~/.vemrc"

\* the configuration files a run of the config command may find: none, or a
\* YAML mapping of some keys to values
RcFiles ==
    {[path |-> None, conf |-> <<>>]}
    \cup {[path |-> rc_home, conf |-> c] :
            c \in UNION {[K -> ConfigValues] : K \in SUBSET ConfigKeys}}

\* ConfigCommand._set_config(key, value) on the configuration file rc; create
\* is the answer to the question whether to create a file. The result is
\* [rc, ret, raised]: the file afterwards, the value returned, the exception
\* raised
_set_config(rc, key, value, create) ==
    IF rc.path = None /\ ~create
    THEN \* open(self.conf_file) with conf_file None
         [rc |-> rc, ret |-> None, raised |-> "TypeError"]
    ELSE LET conf_file == IF rc.path = None THEN rc_home ELSE rc.path
             conf == IF rc.path = None THEN <<>> ELSE rc.conf
             updated == [k \in DOMAIN conf \cup {key} |->
                            IF k = key THEN value ELSE conf[k]]
         IN [rc |-> [path |-> conf_file, conf |-> updated],
             ret |-> None,
             raised |-> "none"]

\* ConfigCommand._remove_config(key) on the configuration file rc
_remove_config(rc, key) ==
    IF rc.path = None
    THEN [rc |-> rc, ret |-> "False", raised |-> "none"]
    ELSE IF key \notin DOMAIN rc.conf
    THEN \* del conf[key]
         [rc |-> rc, ret |-> None, raised |-> "KeyError"]
    ELSE [rc |-> [path |-> rc.path,
                  conf |-> [k \in DOMAIN rc.conf \ {key} |-> rc.conf[k]]],
          ret |-> "True",
          raised |-> "none"]

\* the state a run of the config command starts in
InitConfig ==
    /\ platform \in Platforms
    /\ pc = "idle"
    /\ call = [op |-> "none"]
    /\ ext = NoneObj
    /\ raised = "none"
    /\ ret = None
    /\ cmds = <<>>
    /\ log = <<>>
    /\ mkt = <<>>
    /\ editors_to_install = {}
    /\ extensions_to_install = {}
    /\ target_editors = NoneObj
    /\ system_editors = NoneObj
    /\ connected = FALSE
    /\ installs = <<>>
    /\ temporary_files = <<>>
    /\ rcfile \in RcFiles
    /\ config = [op |-> "none"]

\* ConfigCommand.run for 'config set <key> [<value>]': value is None when it
\* is omitted on the command line
ConfigSet ==
    /\ \E key \in ConfigKeys, value \in ConfigValues \cup {None}, create \in BOOLEAN :
        LET r == _set_config(rcfile, key, value, create)
        IN /\ rcfile' = r.rc
           /\ config' = [op |-> "set", key |-> key, value |-> value,
                         before |-> rcfile, ret |-> r.ret, raised |-> r.raised]
    /\ UNCHANGED <<platform, pc, extvars, runvars>>

\* ConfigCommand.run for 'config remove <key>' and 'config delete <key>'
ConfigRemove ==
    /\ \E key \in ConfigKeys :
        LET r == _remove_config(rcfile, key)
        IN /\ rcfile' = r.rc
           /\ config' = [op |-> "remove", key |-> key, value |-> None,
                         before |-> rcfile, ret |-> r.ret, raised |-> r.raised]
    /\ UNCHANGED <<platform, pc, extvars, runvars>>

NextConfig ==
    \/ ConfigSet
    \/ ConfigRemove

SpecConfig == InitConfig /\ [][NextConfig]_vars

-----------------------------------------------------------------------------

Next ==
    \/ NewGithubExtension
    \/ GetExtension
    \/ Download
    \/ RunStart
    \/ RunInstallEditor
    \/ RunValidateTargetEditors
    \/ RunGetExtension
    \/ RunInstallExtension

Spec == Init /\ [][Next]_vars

\* the construction of a MarketplaceExtension from a parsed response, alone
NextMarketplace == NewMarketplaceExtension

SpecMarketplace == Init /\ [][NextMarketplace]_vars

-----------------------------------------------------------------------------
(* Properties of the resolution of an extension *)

\* the last call was a resolution that built, or tried to build, a
\* GithubExtension, and nothing was called since
GithubResolved ==
    /\ pc = "resolved"
    /\ \/ call.op = "GithubExtension"
       \/ /\ call.op = "get_extension"
          /\ call.args.unique_id = "ms-vscode.cpptools"

\* the arguments the constructor of that GithubExtension got
GithubArgs ==
    IF call.op = "GithubExtension"
    THEN call.args
    ELSE [owner |-> "Microsoft",
          repo |-> "vscode-cpptools",
          asset_name |-> CASE platform = "linux64" -> "cpptools-linux.vsix"
                           [] platform = "linux32" -> "cpptools-linux32.vsix"
                           [] platform = "darwin" -> "cpptools-osx.vsix"
                           [] platform = "windows" -> "cpptools-win32.vsix",
          release |-> call.args.release,
          prerelease |-> FALSE,
          unique_id |-> call.args.unique_id]

\* the release object a successful query of a 'latest' resolution returned:
\* the body itself, or element 0 of the list when prereleases are allowed
QueriedRelease ==
    IF GithubArgs.prerelease THEN call.response.stdout[1] ELSE call.response.stdout

\* the query of a 'latest' resolution was answered with a release object
ReleaseReturned ==
    /\ GithubResolved
    /\ GithubArgs.release = "latest"
    /\ call.response.exited = 0
    /\ GithubArgs.prerelease => call.response.stdout # <<>>

\* the positions in an asset list of the assets named name
Matches(assets, name) == {i \in DOMAIN assets : assets[i].name = name}

\* the least member of a non-empty set of positions
Least(S) == CHOOSE i \in S : \A j \in S : i <= j

\* C1: get_extension(unique_id, tunnel, release) selects the source by exact
\* lookup in the registry of non-marketplace extensions. For a unique_id of
\* the registry it queries no marketplace, and the extension it returns is
\* GitHub-sourced with the owner, repo and asset_name of the registry entry
\* (for 'ms-vscode.cpptools' on Linux 64-bit: 'Microsoft', 'vscode-cpptools'
\* and 'cpptools-linux.vsix'). For every other unique_id it queries the
\* marketplace for that unique_id, runs no GitHub query and returns no
\* GitHub-sourced extension.
C1_SourceSelectedByRegistry ==
    (pc = "resolved" /\ call.op = "get_extension") =>
        IF call.args.unique_id = "ms-vscode.cpptools"
        THEN /\ mkt = <<>>
             /\ raised = "none" =>
                    /\ ext.source_type = ExtensionSourceTypes.GitHub
                    /\ ext.unique_id = call.args.unique_id
                    /\ ext.owner = "Microsoft"
                    /\ ext.repo = "vscode-cpptools"
                    /\ platform = "linux64" => ext.asset_name = "cpptools-linux.vsix"
                    /\ platform = "linux32" => ext.asset_name = "cpptools-linux32.vsix"
                    /\ platform = "darwin" => ext.asset_name = "cpptools-osx.vsix"
                    /\ platform = "windows" => ext.asset_name = "cpptools-win32.vsix"
        ELSE /\ mkt = <<call.args.unique_id>>
             /\ cmds = <<>>
             /\ raised = "none" =>
                    ext.source_type = ExtensionSourceTypes.Marketplace

\* C1 witness: 'ms-vscode.cpptools' was resolved on Linux 64-bit
C1_Witness ==
    /\ pc = "resolved"
    /\ call.op = "get_extension"
    /\ call.args.unique_id = "ms-vscode.cpptools"
    /\ platform = "linux64"
    /\ raised = "none"
    /\ ext.asset_name = "cpptools-linux.vsix"

\* C2: a GitHub extension resolved with a concrete release tag (not 'latest')
\* runs no command on the tunnel during resolution, and its download URL is
\* 'https://github.com/{owner}/{repo}/releases/download/{release}/{asset_name}'.
C2_ExplicitReleaseUrl ==
    (GithubResolved /\ GithubArgs.release # "latest") =>
        /\ cmds = <<>>
        /\ raised = "none"
        /\ ext.download_url =
              "https://github.com/" \o GithubArgs.owner \o "/" \o GithubArgs.repo
              \o "/releases/download/" \o GithubArgs.release
              \o "/" \o GithubArgs.asset_name
        /\ (/\ GithubArgs.owner = "acme"
            /\ GithubArgs.repo = "widget"
            /\ GithubArgs.asset_name = "cpptools-linux.vsix") =>
              ext.download_url =
                "https://github.com/acme/widget/releases/download/v1.2/cpptools-linux.vsix"

\* C2 witness: acme/widget was resolved at the tag v1.2
C2_Witness ==
    /\ GithubResolved
    /\ GithubArgs.release = "v1.2"
    /\ GithubArgs.owner = "acme"
    /\ GithubArgs.repo = "widget"
    /\ ext.download_url =
          "https://github.com/acme/widget/releases/download/v1.2/cpptools-linux.vsix"

\* C3: a GitHub extension resolved with release 'latest' and prereleases not
\* allowed issues one GET to
\* 'https://api.github.com/repos/{owner}/{repo}/releases/latest?per_page=1',
\* takes the body for one release object, and its download URL is the
\* browser_download_url of the asset of that release named asset_name.
C3_LatestStableQuery ==
    (GithubResolved /\ GithubArgs.release = "latest" /\ ~GithubArgs.prerelease) =>
        /\ cmds = <<[url |-> "https://api.github.com/repos/" \o GithubArgs.owner
                             \o "/" \o GithubArgs.repo
                             \o "/releases/latest?per_page=1",
                     output |-> None]>>
        /\ (/\ call.response.exited = 0
            /\ Matches(call.response.stdout.assets, GithubArgs.asset_name) # {}) =>
              /\ raised = "none"
              /\ \E i \in Matches(call.response.stdout.assets, GithubArgs.asset_name) :
                    ext.download_url =
                        call.response.stdout.assets[i].browser_download_url

\* C3 witness: the latest stable release of Microsoft/vscode-cpptools was
\* queried and held the asset
C3_Witness ==
    /\ GithubResolved
    /\ GithubArgs.release = "latest"
    /\ ~GithubArgs.prerelease
    /\ GithubArgs.owner = "Microsoft"
    /\ call.response.exited = 0
    /\ raised = "none"
    /\ ext.download_url = "U"

\* C4: a GitHub extension resolved with release 'latest' and prereleases
\* allowed issues one GET to
\* 'https://api.github.com/repos/{owner}/{repo}/releases?per_page=1', takes
\* element 0 of the list for the release object, prerelease or not, and its
\* download URL is the browser_download_url of the asset of that release
\* named asset_name.
C4_LatestPrereleaseQuery ==
    (GithubResolved /\ GithubArgs.release = "latest" /\ GithubArgs.prerelease) =>
        /\ cmds = <<[url |-> "https://api.github.com/repos/" \o GithubArgs.owner
                             \o "/" \o GithubArgs.repo \o "/releases?per_page=1",
                     output |-> None]>>
        /\ (/\ call.response.exited = 0
            /\ call.response.stdout # <<>>
            /\ Matches(call.response.stdout[1].assets, GithubArgs.asset_name) # {}) =>
              /\ raised = "none"
              /\ \E i \in Matches(call.response.stdout[1].assets, GithubArgs.asset_name) :
                    ext.download_url =
                        call.response.stdout[1].assets[i].browser_download_url

\* C4 witness: prereleases were allowed, the most recent release was a stable
\* one, and its asset was taken
C4_Witness ==
    /\ GithubResolved
    /\ GithubArgs.release = "latest"
    /\ GithubArgs.prerelease
    /\ call.response.exited = 0
    /\ call.response.stdout # <<>>
    /\ ~call.response.stdout[1].prerelease
    /\ raised = "none"
    /\ ext.download_url = "V"

\* C5: the asset is extracted by first match on exact name equality. If an
\* asset of the release is named asset_name, the download URL is the
\* browser_download_url of the first such asset in list order; if none is,
\* the resolution fails and returns no Extension.
C5_FirstMatchOrFailure ==
    ReleaseReturned =>
        LET assets == QueriedRelease.assets
            found == Matches(assets, GithubArgs.asset_name)
        IN IF found # {}
           THEN /\ raised = "none"
                /\ ext.download_url = assets[Least(found)].browser_download_url
           ELSE /\ raised # "none"
                /\ ext = NoneObj

\* C5 witness: two assets of the release had the name, with different URLs
C5_Witness ==
    /\ ReleaseReturned
    /\ Cardinality(Matches(QueriedRelease.assets, GithubArgs.asset_name)) = 2
    /\ QueriedRelease.assets[1].browser_download_url = "V"
    /\ QueriedRelease.assets[2].browser_download_url = "U"
    /\ ext.download_url = "V"

\* C6: when the tunnel answers the releases query of a 'latest' resolution
\* with a non-zero exit status, the captured stderr is logged at error
\* severity, nothing is raised, and the extension is constructed with a null
\* download URL, its unique id and its source type GitHub set.
C6_QueryFailureGivesNullUrl ==
    (/\ GithubResolved
     /\ GithubArgs.release = "latest"
     /\ call.response.exited # 0) =>
        /\ log = <<[level |-> "error", msg |-> call.response.stderr]>>
        /\ raised = "none"
        /\ ext # NoneObj
        /\ ext.download_url = None
        /\ ext.unique_id = GithubArgs.unique_id
        /\ ext.source_type = ExtensionSourceTypes.GitHub

\* C6 witness: the query exited with status 1 and stderr 'not found'
C6_Witness ==
    /\ GithubResolved
    /\ GithubArgs.release = "latest"
    /\ call.response.exited = 1
    /\ call.response.stderr = "not found"
    /\ ext # NoneObj
    /\ ext.download_url = None

-----------------------------------------------------------------------------
(* Properties of download() and of the install flow *)

\* the last call was download(directory), which ran its fetch command
Fetched ==
    /\ pc = "downloaded"
    /\ call.op = "download"
    /\ Len(call.args) = 1

\* C7: when the command download() runs exits with a non-zero status,
\* download() returns no path, logs the stderr of the tunnel at error
\* severity and propagates a DownloadFailed condition to its caller.
C7_DownloadFailurePropagates ==
    (Fetched /\ call.response.exited # 0) =>
        /\ ret = None
        /\ log[Len(log)] = [level |-> "error", msg |-> call.response.stderr]
        /\ raised # "none"

\* C8: download(remote_dir, local_dir?) accepts a remote directory and an
\* optional local directory and, when the command exits with status zero,
\* returns the path of the downloaded file.
C8_DownloadReturnsPath ==
    (pc = "downloaded" /\ call.op = "download") =>
        /\ raised # "TypeError"
        /\ (call.response # NoneObj /\ call.response.exited = 0) =>
              ret = cmds[Len(cmds)].output

\* C9: download(directory) writes to '{directory}/{unique_id}-{version}.vsix'
\* when the extension has a version (a marketplace extension) and to
\* '{directory}/{unique_id}.vsix' otherwise (a GitHub extension), and the
\* fetch command is directed at the download URL of the extension.
C9_DownloadOutputPath ==
    Fetched =>
        /\ cmds # <<>>
        /\ cmds[Len(cmds)].url = ext.download_url
        /\ cmds[Len(cmds)].output =
              IF ext.source_type = ExtensionSourceTypes.Marketplace
              THEN call.args[1] \o "/" \o ext.unique_id \o "-" \o ext.version \o ".vsix"
              ELSE call.args[1] \o "/" \o ext.unique_id \o ".vsix"

\* C9 witness: version 1.2.3 of the marketplace extension twxs.cmake was
\* downloaded to /tmp/remote
C9_Witness ==
    /\ Fetched
    /\ ext.source_type = ExtensionSourceTypes.Marketplace
    /\ cmds[Len(cmds)].output = "/tmp/remote/twxs.cmake-1.2.3.vsix"

\* the loop of _install_extensions has taken up an extension of the run
ExtensionTakenUp ==
    /\ call.op = "run"
    /\ extensions_to_install # call.args.extensions

\* C10: failures are isolated per extension in a batch install. When the
\* resolution, download or installation of one requested extension fails,
\* the install flow does not crash and goes on to the other extensions: it
\* is never crashed while requested extensions are still to be processed.
C10_FailuresIsolatedPerExtension ==
    (ExtensionTakenUp /\ extensions_to_install # {}) => pc # "crashed"


\* C11: download() is never invoked on an extension whose download URL is
\* null. In every run of the install flow the caller checks an extension
\* whose resolution degraded to a null download URL: whenever the flow is at
\* its call of download(), the download URL of the extension is not null.
C11_NullUrlNeverDownloaded ==
    (call.op = "run" /\ pc = "download_extension") => ext.download_url # None

\* C12: there are no retries. Resolving one GitHub extension runs at most one
\* command on the tunnel (exactly one for release 'latest', none for an
\* explicit tag), and one call of download() runs exactly one command,
\* whether that command succeeds or fails.
C12_NoRetries ==
    /\ GithubResolved =>
          Len(cmds) = IF GithubArgs.release = "latest" THEN 1 ELSE 0
    /\ Fetched =>
          LET resolution == IF /\ ext.source_type = ExtensionSourceTypes.GitHub
                               /\ ext.release = "latest"
                            THEN 1
                            ELSE 0
          IN /\ Len(cmds) = resolution + 1
             /\ Len(log) <= resolution + 1

\* C12 witness: the query of a 'latest' resolution failed, and so did the
\* download that followed: two commands were run in all
C12_Witness ==
    /\ Fetched
    /\ ext.source_type = ExtensionSourceTypes.GitHub
    /\ ext.release = "latest"
    /\ ext.download_url = None
    /\ call.response.exited # 0
    /\ Len(cmds) = 2

-----------------------------------------------------------------------------
(* Properties of the marketplace metadata *)

\* the entry at field of the first member of entries whose tag is key, None
\* when no member has that tag
FirstOrNone(entries, tag, key, field) ==
    LET found == {i \in DOMAIN entries : entries[i][tag] = key}
    IN IF found = {} THEN None ELSE entries[Least(found)][field]

\* C13: marketplace field extraction never raises on a missing entry. For
\* every files list and properties list of the first version record, the
\* manifest URL, the VSIX package URL, the code engine, the extension pack
\* and the extension dependencies are each the value of the first entry whose
\* asset type or key is the well-known one, and null when no entry has it;
\* the download URL of a marketplace extension is its VSIX package URL.
C13_MarketplaceFieldsFirstOrNull ==
    (pc = "resolved" /\ call.op = "MarketplaceExtension") =>
        LET files == call.args.versions[1].files
            properties == call.args.versions[1].properties
        IN /\ raised = "none"
           /\ ext.uri.manifest =
                 FirstOrNone(files, "assetType",
                             "Microsoft.VisualStudio.Code.Manifest", "source")
           /\ ext.uri.vsix_package =
                 FirstOrNone(files, "assetType",
                             "Microsoft.VisualStudio.Services.VSIXPackage", "source")
           /\ ext.code_engine =
                 FirstOrNone(properties, "key",
                             "Microsoft.VisualStudio.Code.Engine", "value")
           /\ ext.extension_pack =
                 FirstOrNone(properties, "key",
                             "Microsoft.VisualStudio.Code.ExtensionPack", "value")
           /\ ext.extension_dependencies =
                 FirstOrNone(properties, "key",
                             "Microsoft.VisualStudio.Code.ExtensionDependencies", "value")
           /\ ext.download_url = ext.uri.vsix_package

\* C13 witness: two VSIX packages and no manifest among the files, two
\* extension packs and no code engine among the properties
C13_Witness ==
    /\ pc = "resolved"
    /\ call.op = "MarketplaceExtension"
    /\ Len(call.args.versions[1].files) = 2
    /\ Len(call.args.versions[1].properties) = 2
    /\ ext.uri.manifest = None
    /\ call.args.versions[1].files[2].source = "U"
    /\ ext.download_url = "V"
    /\ ext.code_engine = None
    /\ call.args.versions[1].properties[2].value = "P"
    /\ ext.extension_pack = "Q"

-----------------------------------------------------------------------------
(* Properties of the config command *)

\* C14: 'config set <key> <value>' sets the key to the value in the
\* configuration file and leaves every other key of the file unchanged; when
\* the value is omitted on the command line, the key is set to "true".
C14_SetWritesValueOrTrue ==
    (config.op = "set" /\ config.raised = "none") =>
        /\ DOMAIN rcfile.conf = DOMAIN config.before.conf \cup {config.key}
        /\ rcfile.conf[config.key] =
              IF config.value = None THEN "true" ELSE config.value
        /\ \A k \in DOMAIN config.before.conf \ {config.key} :
              rcfile.conf[k] = config.before.conf[k]

\* C15: in the 'latest' resolution with prereleases allowed, an empty list
\* of releases returned by the GitHub API is treated as a NotFound condition
\* rather than an index failure.
C15_EmptyListIsNotFound ==
    (/\ GithubResolved
     /\ GithubArgs.release = "latest"
     /\ GithubArgs.prerelease
     /\ call.response.exited = 0
     /\ call.response.stdout = <<>>) =>
        raised = "NotFound"

\* C16: _remove_config(key) returns True if the key could be removed and
\* False if not. With no configuration file it returns False and writes
\* nothing; with a file that holds the key it rewrites the file without the
\* key, the other keys unchanged, and returns True; with a file that does not
\* hold the key it returns False and leaves the file unchanged.
C16_RemoveReturnsWhetherRemoved ==
    config.op = "remove" =>
        /\ config.raised = "none"
        /\ IF config.before.path # None /\ config.key \in DOMAIN config.before.conf
           THEN /\ config.ret = "True"
                /\ rcfile.path = config.before.path
                /\ DOMAIN rcfile.conf = DOMAIN config.before.conf \ {config.key}
                /\ \A k \in DOMAIN rcfile.conf : rcfile.conf[k] = config.before.conf[k]
           ELSE /\ config.ret = "False"
                /\ rcfile = config.before

-----------------------------------------------------------------------------
(* Properties of the install command *)

\* C17: _validate_target_editors(system_editors, requested_targets) checks
\* every requested target and returns exactly the requested targets that are
\* installed, for any set of requested targets, sets with several editors
\* that are not installed included: once the targets of a run are validated,
\* nothing was raised by the validation and the targets are the requested
\* ones that are installed.
C17_ValidationKeepsInstalledTargets ==
    (/\ call.op = "run"
     /\ call.args.targets # NoneObj
     /\ pc \notin {"idle", "install_editors"}) =>
        /\ raised # "RuntimeError"
        /\ target_editors =
              [set |-> {t \in call.args.targets.set : system_editors[t].installed}]

\* C18: in the install flow the tunnel is connected first, the requested
\* editors are processed before the requested extensions, and each requested
\* extension is resolved, downloaded, installed to every validated target
\* editor and then has its downloaded path recorded as a temporary file: once
\* the flow is past the download of an extension it resolved, the extension
\* has been installed to every target and its path recorded.
C18_ResolveDownloadInstallRecord ==
    (call.op = "run" /\ ext # NoneObj /\ pc # "download_extension") =>
        /\ connected
        /\ editors_to_install = {}
        /\ temporary_files # <<>>
        /\ \A t \in target_editors.set :
              \E i \in DOMAIN installs :
                  /\ installs[i].editor = t
                  /\ installs[i].path = temporary_files[Len(temporary_files)]

\* C19: when the install command is given editors only, run() installs or
\* skips each requested editor and then completes without raising: the
\* validation of the targets and the installation of extensions are no-ops,
\* and no extension is resolved or downloaded.
C19_EditorsOnlyRunCompletes ==
    (/\ call.op = "run"
     /\ call.args.editors # {}
     /\ call.args.extensions = {}
     /\ ~(pc = "install_editors")) =>
        /\ pc = "done"
        /\ raised = "none"
        /\ editors_to_install = {}
        /\ cmds = <<>>
        /\ mkt = <<>>

=============================================================================
